---- MODULE Spec2Model ----
(***************************************************************************)
(* Content lifecycle and revision engine of Blog-App-Backend.              *)
(*                                                                         *)
(* The store (posts, revisions, comments) is shared by request handlers    *)
(* that run concurrently.  Every handler is cut at its awaits: one action  *)
(* per storage round trip, the synchronous code that follows an await      *)
(* belongs to the step that completes it.                                  *)
(***************************************************************************)
EXTENDS Integers, Sequences, FiniteSets, TLC

(* ------------------------------ bounds --------------------------------- *)
MaxPosts == 2      \* posts ever created
MaxRevs == 2       \* revisions ever created
MaxComments == 1   \* comments ever inserted
MaxClock == 2      \* distinct readings of new Date()
MaxStarts == 4     \* requests admitted in one run

\* the handlers that can be in flight at the same time
Reqs == {1, 2}

PostIds == 1..MaxPosts
RevIds == 1..MaxRevs

(* ------------------------------ inputs --------------------------------- *)
\* req.user as attached by studentAuth / adminAuth
Author == [id |-> 1, role |-> "author"]
AdminUser == [id |-> 2, role |-> "admin"]
Users == { Author, AdminUser }
\* an authenticated author-tier user who owns none of the posts
Stranger == [id |-> 3, role |-> "author"]
NoUser == [id |-> 0, role |-> ""]

\* titles are sequences of characters; the empty one is JS-falsy (absent)
NoTitle == << >>
Titles == { <<"a">>, <<"A", "!">>, <<"!">> }
\* body: a string, or undefined when the patch carries none
NoBody == "undefined"
Bodies == { "x", "y" }
\* status of a patch: the empty string is JS-falsy (absent)
NoStatus == ""
PatchStatuses == { "published", "spam" }

(* --------------------------- slugify (pure) ---------------------------- *)
Lower(c) == CASE c = "A" -> "a" [] c = "B" -> "b" [] OTHER -> c

IsSpace(c) == c = " "

IsAlnum(c) == c \in {"a", "b", "0", "1", "2", "3", "4", "5", "6", "7", "8", "9"}

RECURSIVE MapLower(_)
MapLower(s) == IF s = << >> THEN << >> ELSE <<Lower(Head(s))>> \o MapLower(Tail(s))

RECURSIVE TrimLeft(_)
TrimLeft(s) == IF s # << >> /\ IsSpace(Head(s)) THEN TrimLeft(Tail(s)) ELSE s

RECURSIVE TrimRight(_)
TrimRight(s) ==
  IF s # << >> /\ IsSpace(s[Len(s)]) THEN TrimRight(SubSeq(s, 1, Len(s) - 1)) ELSE s

Trim(s) == TrimRight(TrimLeft(s))

RECURSIVE SkipNonAlnum(_)
SkipNonAlnum(s) ==
  IF s # << >> /\ ~IsAlnum(Head(s)) THEN SkipNonAlnum(Tail(s)) ELSE s

\* .replace(/[^a-z0-9]+/g, '-')
RECURSIVE Collapse(_)
Collapse(s) ==
  IF s = << >> THEN << >>
  ELSE IF IsAlnum(Head(s)) THEN <<Head(s)>> \o Collapse(Tail(s))
  ELSE <<"-">> \o Collapse(SkipNonAlnum(s))

\* .replace(/(^-|-$)+/g, '')
StripDashes(s) ==
  LET a == IF s # << >> /\ Head(s) = "-" THEN Tail(s) ELSE s
  IN IF a # << >> /\ a[Len(a)] = "-" THEN SubSeq(a, 1, Len(a) - 1) ELSE a

slugify(text) == StripDashes(Collapse(Trim(MapLower(text))))

DigitChars == <<"0", "1", "2", "3", "4", "5", "6", "7", "8", "9">>

RECURSIVE Digits(_)
Digits(n) == IF n < 10 THEN <<DigitChars[n + 1]>>
             ELSE Digits(n \div 10) \o <<DigitChars[(n % 10) + 1]>>

\* the suffixes start at 2
Suffixed_FromTwo(base, counter) == base \o <<"-">> \o Digits(counter + 1)

\* `${slugBase}-${counter}`
Suffixed(base, counter) == base \o <<"-">> \o Digits(counter)

(* ------------------------------- state --------------------------------- *)
VARIABLES
  posts,       \* Post collection: id -> document
  revisions,   \* PostRevision collection, in insertion order
  comments,    \* Comment collection: id -> document
  nextPostId,  \* ids are never reused
  nextRevId,
  nextComId,
  clock,       \* what new Date() returns now
  started,     \* requests admitted so far
  req,         \* the handlers in flight: locals and position of each
  retired      \* history: the pairs <<slug, post>> of slugs a retitled post gave up

vars == <<posts, revisions, comments, nextPostId, nextRevId, nextComId, clock, started, req,
          retired>>

\* what Comment.findById returns for an unknown id
NoCom == [postId |-> 0, authorId |-> 0, status |-> "", moderatedBy |-> 0, isDeleted |-> FALSE]

NoDoc == [authorId |-> 0, title |-> NoTitle, slug |-> << >>, body |-> NoBody,
          status |-> "", publishedAt |-> 0, isDeleted |-> FALSE, commentCount |-> 0]

Idle == [op |-> "none", pc |-> "idle", user |-> NoUser, pid |-> 0,
         title |-> NoTitle, body |-> NoBody, status |-> NoStatus,
         doc |-> NoDoc, base |-> << >>, slug |-> << >>, counter |-> 0,
         now |-> 0, rev |-> 0, revId |-> 0, ids |-> {}, publish |-> FALSE,
         stRevs |-> {}, stComs |-> {}, okRevs |-> FALSE, okComs |-> FALSE,
         txAlive |-> FALSE, cid |-> 0, com |-> NoCom,
         res |-> "none", out |-> << >>]

Init ==
  /\ posts = << >>
  /\ revisions = << >>
  /\ comments = << >>
  /\ nextPostId = 1
  /\ nextRevId = 1
  /\ nextComId = 1
  /\ clock = 1
  /\ started = 0
  /\ req = [r \in Reqs |-> Idle]
  /\ retired = {}

(* ----------------------------- storage --------------------------------- *)
\* Post.findOne({ slug }) / Post.findOne({ slug, _id: { $ne: self } })
SlugTaken(slug, self) == \E q \in DOMAIN posts : q # self /\ posts[q].slug = slug

\* schema validation run by save(): required title, slug and body
\* (mongoose's required validator rejects the empty string)
ValidPost(d) == d.title # NoTitle /\ d.slug # << >> /\ d.body # NoBody

\* the schema without its unique index: every write is accepted
UniqueSlugOK_NoIndex(slug, self) == TRUE

\* the unique index on slug, the final arbiter at write time
UniqueSlugOK(slug, self) == ~SlugTaken(slug, self)

\* a document whose deletion is staged by an open transaction is locked
LockedByTxn(p) ==
  \E r \in Reqs : req[r].op = "adminForceDeletePost" /\ req[r].pc = "fd_commit"
                  /\ req[r].pid = p

\* save() of a loaded document sends $set of the paths modified since load
Merge(stored, loaded, modified) ==
  [f \in DOMAIN stored |-> IF modified[f] # loaded[f] THEN modified[f] ELSE stored[f]]

\* outcome of post.save() for an existing document
SaveError(p, loaded, modified) ==
  IF ~ValidPost(modified) THEN "ValidationError"
  ELSE IF p \notin DOMAIN posts THEN "DocumentNotFoundError"
  ELSE IF modified.slug # loaded.slug /\ ~UniqueSlugOK(modified.slug, p) THEN "DuplicateKey"
  ELSE "ok"

\* the handler returns: its locals are gone, the response stays
Response(q, res) ==
  [Idle EXCEPT !.op = q.op, !.pc = "done", !.res = res, !.user = q.user, !.pid = q.pid,
               !.rev = q.rev, !.revId = q.revId,
               !.status = IF q.op = "updatePost" THEN q.status ELSE NoStatus]

Finish(r, res) == req' = [req EXCEPT ![r] = Response(req[r], res)]

\* a slot whose handler has returned can take the next request
Free(r) == req[r].pc \in {"idle", "done"}

InFlight(op) == Cardinality({r \in Reqs : req[r].op = op /\ ~Free(r)})

\* every authenticated user passes
isOwnerOrAdmin_AnyUser(user, resourceAuthorId) == user.id # 0

\* function isOwnerOrAdmin(user, resourceAuthorId)
isOwnerOrAdmin(user, resourceAuthorId) ==
  IF user.id = 0 THEN FALSE
  ELSE IF user.role = "admin" THEN TRUE
  ELSE IF resourceAuthorId = 0 THEN FALSE
  ELSE resourceAuthorId = user.id

\* Post.findById(id): the document or null
FindPost(p) == IF p \in DOMAIN posts THEN posts[p] ELSE NoDoc

Found(d) == d # NoDoc

StoreUnchanged == UNCHANGED <<posts, revisions, comments, nextPostId, nextRevId, nextComId, clock, started, retired>>

\* a request arrives and takes the first free slot
Admit(r) ==
  /\ Free(r)
  /\ \A q \in Reqs : q < r => ~Free(q)
  /\ started < MaxStarts
  /\ started' = started + 1
  /\ UNCHANGED <<posts, revisions, comments, nextPostId, nextRevId, nextComId, clock, retired>>

(* --------------------------- createPost -------------------------------- *)
\* lines 131-148: argument checks and slugify, up to the first findOne
CreateStart(r, u, t, b, s) ==
  /\ Admit(r)
  /\ nextPostId + InFlight("createPost") <= MaxPosts
  /\ req' = [req EXCEPT ![r] = [Idle EXCEPT !.op = "createPost", !.pc = "cr_probe",
               !.user = u, !.title = t, !.body = b, !.status = s,
               !.base = slugify(t), !.slug = slugify(t), !.counter = 1]]

\* one turn of the while loop: await Post.findOne({ slug })
CreateProbe(r) ==
  /\ req[r].op = "createPost" /\ req[r].pc = "cr_probe"
  /\ IF SlugTaken(req[r].slug, 0)
       THEN req' = [req EXCEPT ![r].slug = Suffixed(req[r].base, req[r].counter),
                               ![r].counter = req[r].counter + 1]
       ELSE req' = [req EXCEPT ![r].pc = "cr_save", ![r].now = clock]
  /\ StoreUnchanged

NewPost(q) ==
  LET status == IF q.status = "published" /\ q.user.role = "admin" THEN "published" ELSE "draft"
  IN [authorId |-> q.user.id, title |-> q.title, slug |-> q.slug, body |-> q.body,
      status |-> status, publishedAt |-> IF status = "published" THEN q.now ELSE 0,
      isDeleted |-> FALSE, commentCount |-> 0]

\* outcome of the insert
InsertError(d) ==
  IF ~ValidPost(d) THEN "ValidationError"
  ELSE IF ~UniqueSlugOK(d.slug, 0) THEN "DuplicateKey"
  ELSE "ok"

\* await post.save(): validation, then the insert under the unique index
CreateSave(r) ==
  /\ req[r].op = "createPost" /\ req[r].pc = "cr_save"
  /\ LET d == NewPost(req[r])
         e == InsertError(d) IN
       \E dbOk \in BOOLEAN :
         IF e # "ok" \/ ~dbOk THEN
           /\ Finish(r, IF e # "ok" THEN e ELSE "StorageError")
           /\ UNCHANGED <<posts, nextPostId>>
         ELSE
           /\ posts' = posts @@ (nextPostId :> d)
           /\ nextPostId' = nextPostId + 1
           /\ req' = [req EXCEPT ![r] = Response([req[r] EXCEPT !.pid = nextPostId], "ok")]
  /\ UNCHANGED <<revisions, comments, nextRevId, nextComId, clock, started, retired>>

(* --------------------------- updatePost -------------------------------- *)
\* requests that may still insert a revision
RevReserved ==
  Cardinality({r \in Reqs : req[r].pc \in {"up_find", "up_rev", "rr_find", "rr_findrev", "rr_rev"}})

\* new PostRevision({ postId, editorId, title: post.title, content: post.body, createdAt })
NewRevision(id, q) ==
  [id |-> id, postId |-> q.pid, editorId |-> q.user.id,
   title |-> q.doc.title, content |-> q.doc.body, createdAt |-> q.now]

\* lines 191-198: up to await Post.findById(id)
UpdateStart(r, u, p, t, b, s) ==
  /\ Admit(r)
  /\ nextRevId + RevReserved <= MaxRevs
  /\ req' = [req EXCEPT ![r] = [Idle EXCEPT !.op = "updatePost", !.pc = "up_find",
               !.user = u, !.pid = p, !.title = t, !.body = b, !.status = s]]

\* a snapshot on every update, whatever the patch
Changed_Always(q, d) == TRUE

\* const changed = (title && title !== post.title) || (body && body !== post.body)
Changed(q, d) ==
  \/ q.title # NoTitle /\ q.title # d.title
  \/ q.body # NoBody /\ q.body # d.body

\* lines 228-239: where the handler goes once the snapshot question is settled
AfterSnapshot(q) ==
  IF q.title # NoTitle /\ slugify(q.title) # q.doc.slug
    THEN [q EXCEPT !.pc = "up_probe", !.base = slugify(q.title),
                   !.slug = slugify(q.title), !.counter = 1]
    ELSE [q EXCEPT !.pc = "up_save", !.slug = q.doc.slug]

\* lines 198-226: the post is loaded, checked, and the snapshot is built
UpdateFind(r) ==
  /\ req[r].op = "updatePost" /\ req[r].pc = "up_find"
  /\ LET post == FindPost(req[r].pid)
         q == [req[r] EXCEPT !.doc = post, !.now = clock] IN
       IF ~Found(post) \/ post.isDeleted THEN Finish(r, "NotFound")
       ELSE IF ~isOwnerOrAdmin(req[r].user, post.authorId) THEN Finish(r, "Forbidden")
       ELSE IF Changed(req[r], post) THEN req' = [req EXCEPT ![r] = [q EXCEPT !.pc = "up_rev"]]
       ELSE req' = [req EXCEPT ![r] = AfterSnapshot(q)]
  /\ StoreUnchanged

\* await rev.save()
UpdateRevSave(r) ==
  /\ req[r].op = "updatePost" /\ req[r].pc = "up_rev"
  /\ \E dbOk \in BOOLEAN :
       IF dbOk THEN
         /\ revisions' = Append(revisions, NewRevision(nextRevId, req[r]))
         /\ nextRevId' = nextRevId + 1
         /\ req' = [req EXCEPT ![r] = AfterSnapshot([req[r] EXCEPT !.rev = nextRevId, !.now = clock])]
       ELSE
         /\ Finish(r, "StorageError")
         /\ UNCHANGED <<revisions, nextRevId>>
  /\ UNCHANGED <<posts, comments, nextPostId, nextComId, clock, started, retired>>

\* one turn of: while (await Post.findOne({ slug, _id: { $ne: post._id } }))
UpdateProbe(r) ==
  /\ req[r].op = "updatePost" /\ req[r].pc = "up_probe"
  /\ IF SlugTaken(req[r].slug, req[r].pid)
       THEN req' = [req EXCEPT ![r].slug = Suffixed(req[r].base, req[r].counter),
                               ![r].counter = req[r].counter + 1]
       ELSE req' = [req EXCEPT ![r].pc = "up_save", ![r].now = clock]
  /\ StoreUnchanged

\* the status of the patch is stored for every role
Patched_AnyRole(q) ==
  LET d == q.doc
  IN [d EXCEPT !.title = IF q.title # NoTitle THEN q.title ELSE d.title,
               !.slug = q.slug,
               !.body = IF q.body # NoBody THEN q.body ELSE d.body,
               !.status = IF q.status = NoStatus THEN d.status ELSE q.status,
               !.publishedAt = IF q.status = "published" /\ d.publishedAt = 0
                                 THEN q.now ELSE d.publishedAt]

\* lines 228-257: the in-memory document when save() is called
Patched(q) ==
  LET d == q.doc
      status == IF q.status = NoStatus THEN d.status
                ELSE IF q.status = "published" /\ q.user.role # "admin" THEN "pending"
                ELSE q.status
      publishedAt == IF q.status = "published" /\ q.user.role = "admin" /\ d.publishedAt = 0
                       THEN q.now ELSE d.publishedAt
  IN [d EXCEPT !.title = IF q.title # NoTitle THEN q.title ELSE d.title,
               !.slug = q.slug,
               !.body = IF q.body # NoBody THEN q.body ELSE d.body,
               !.status = status,
               !.publishedAt = publishedAt]

\* await post.save() of a loaded document: shared by every handler that
\* loads a post with findById, changes it in memory and saves it
SavePost(r, modified) ==
  /\ ~LockedByTxn(req[r].pid)
  /\ LET p == req[r].pid
         e == SaveError(p, req[r].doc, modified) IN
       \E dbOk \in BOOLEAN :
         IF e # "ok" \/ ~dbOk THEN
           /\ Finish(r, IF e # "ok" THEN e ELSE "StorageError")
           /\ UNCHANGED <<posts, retired>>
         ELSE
           /\ posts' = [posts EXCEPT ![p] = Merge(posts[p], req[r].doc, modified)]
           /\ retired' = IF posts'[p].slug # posts[p].slug
                            THEN retired \cup {<<posts[p].slug, p>>} ELSE retired
           /\ Finish(r, "ok")
  /\ UNCHANGED <<revisions, comments, nextPostId, nextRevId, nextComId, clock, started>>

UpdateSave(r) ==
  /\ req[r].op = "updatePost" /\ req[r].pc = "up_save"
  /\ SavePost(r, Patched(req[r]))

(* ------------------------- restoreRevision ----------------------------- *)
\* PostRevision.findById(revId): position in the collection, 0 when null
RevIndex(id) ==
  IF \E i \in 1..Len(revisions) : revisions[i].id = id
    THEN CHOOSE i \in 1..Len(revisions) : revisions[i].id = id
    ELSE 0

RestoreStart(r, u, p, revId) ==
  /\ Admit(r)
  /\ nextRevId + RevReserved <= MaxRevs
  /\ req' = [req EXCEPT ![r] = [Idle EXCEPT !.op = "restoreRevision", !.pc = "rr_find",
               !.user = u, !.pid = p, !.revId = revId]]

\* lines 532-537
RestoreFind(r) ==
  /\ req[r].op = "restoreRevision" /\ req[r].pc = "rr_find"
  /\ LET post == FindPost(req[r].pid) IN
       IF ~Found(post) THEN Finish(r, "NotFound")
       ELSE IF ~isOwnerOrAdmin(req[r].user, post.authorId) THEN Finish(r, "Forbidden")
       ELSE req' = [req EXCEPT ![r].doc = post, ![r].pc = "rr_findrev"]
  /\ StoreUnchanged

\* a revision is found whatever post it belongs to
RevisionMissing_AnyPost(i, pid) == i = 0

\* if (!revision || revision.postId.toString() !== post._id.toString())
RevisionMissing(i, pid) == i = 0 \/ revisions[i].postId # pid

\* lines 539-551: the revision is loaded and the snapshot is built
RestoreFindRev(r) ==
  /\ req[r].op = "restoreRevision" /\ req[r].pc = "rr_findrev"
  /\ LET i == RevIndex(req[r].revId) IN
       IF RevisionMissing(i, req[r].pid) THEN Finish(r, "NotFound")
       ELSE req' = [req EXCEPT ![r].title = revisions[i].title,
                               ![r].body = revisions[i].content,
                               ![r].now = clock, ![r].pc = "rr_rev"]
  /\ StoreUnchanged

\* await beforeRev.save()
RestoreRevSave(r) ==
  /\ req[r].op = "restoreRevision" /\ req[r].pc = "rr_rev"
  /\ \E dbOk \in BOOLEAN :
       IF dbOk THEN
         /\ revisions' = Append(revisions, NewRevision(nextRevId, req[r]))
         /\ nextRevId' = nextRevId + 1
         /\ req' = [req EXCEPT ![r].rev = nextRevId, ![r].pc = "rr_save"]
       ELSE
         /\ Finish(r, "StorageError")
         /\ UNCHANGED <<revisions, nextRevId>>
  /\ UNCHANGED <<posts, comments, nextPostId, nextComId, clock, started, retired>>

\* a restore that forgets the body
Restored_TitleOnly(q) == [q.doc EXCEPT !.title = q.title]

\* lines 555-557: the in-memory document when save() is called
Restored(q) == [q.doc EXCEPT !.title = q.title, !.body = q.body]

RestoreSave(r) ==
  /\ req[r].op = "restoreRevision" /\ req[r].pc = "rr_save"
  /\ SavePost(r, Restored(req[r]))

(* ------------------- deletePost (author tier) -------------------------- *)
DeleteStart(r, u, p) ==
  /\ Admit(r)
  /\ req' = [req EXCEPT ![r] = [Idle EXCEPT !.op = "deletePost", !.pc = "dp_find",
               !.user = u, !.pid = p]]

\* lines 277-286
DeleteFind(r) ==
  /\ req[r].op = "deletePost" /\ req[r].pc = "dp_find"
  /\ LET post == FindPost(req[r].pid) IN
       IF ~Found(post) THEN Finish(r, "NotFound")
       ELSE IF ~isOwnerOrAdmin(req[r].user, post.authorId) THEN Finish(r, "Forbidden")
       ELSE req' = [req EXCEPT ![r].doc = post, ![r].pc = "dp_save"]
  /\ StoreUnchanged

DeleteSave(r) ==
  /\ req[r].op = "deletePost" /\ req[r].pc = "dp_save"
  /\ SavePost(r, [req[r].doc EXCEPT !.isDeleted = TRUE, !.status = "archived"])

(* ----------------------------- publishPost ----------------------------- *)
PublishStart(r, u, p) ==
  /\ Admit(r)
  /\ req' = [req EXCEPT ![r] = [Idle EXCEPT !.op = "publishPost", !.pc = "pp_find",
               !.user = u, !.pid = p]]

\* lines 336-351
PublishFind(r) ==
  /\ req[r].op = "publishPost" /\ req[r].pc = "pp_find"
  /\ LET post == FindPost(req[r].pid) IN
       IF ~Found(post) \/ post.isDeleted THEN Finish(r, "NotFound")
       ELSE IF ~isOwnerOrAdmin(req[r].user, post.authorId) THEN Finish(r, "Forbidden")
       ELSE req' = [req EXCEPT ![r].doc = post, ![r].now = clock, ![r].pc = "pp_save"]
  /\ StoreUnchanged

\* every caller publishes directly
Published_Direct(q) == [q.doc EXCEPT !.status = "published", !.publishedAt = q.now]

\* lines 342-351: the in-memory document when save() is called
Published(q) ==
  IF q.user.role = "admin"
    THEN [q.doc EXCEPT !.status = "published", !.publishedAt = q.now]
    ELSE [q.doc EXCEPT !.status = "pending"]

PublishSave(r) ==
  /\ req[r].op = "publishPost" /\ req[r].pc = "pp_save"
  /\ SavePost(r, Published(req[r]))

(* ---------------------------- unpublishPost ---------------------------- *)
UnpublishStart(r, u, p) ==
  /\ Admit(r)
  /\ req' = [req EXCEPT ![r] = [Idle EXCEPT !.op = "unpublishPost", !.pc = "un_find",
               !.user = u, !.pid = p]]

\* lines 371-377
UnpublishFind(r) ==
  /\ req[r].op = "unpublishPost" /\ req[r].pc = "un_find"
  /\ LET post == FindPost(req[r].pid) IN
       IF ~Found(post) THEN Finish(r, "NotFound")
       ELSE IF ~isOwnerOrAdmin(req[r].user, post.authorId) THEN Finish(r, "Forbidden")
       ELSE req' = [req EXCEPT ![r].doc = post, ![r].pc = "un_save"]
  /\ StoreUnchanged

UnpublishSave(r) ==
  /\ req[r].op = "unpublishPost" /\ req[r].pc = "un_save"
  /\ SavePost(r, [req[r].doc EXCEPT !.status = "draft"])

(* --------------------------- getPostRevisions -------------------------- *)
\* the revisions of post p, in insertion order
RevsOf(p) == SelectSeq(revisions, LAMBDA v : v.postId = p)

\* .sort({ createdAt: -1 }): any order of the list that is non-increasing in createdAt
SortedNewestFirst(list) ==
  \A i \in 1..Len(list) - 1 : list[i].createdAt >= list[i + 1].createdAt

IsPermutationOf(list, revs) ==
  /\ Len(list) = Len(revs)
  /\ \A i \in 1..Len(revs) : \E j \in 1..Len(list) : list[j] = revs[i]

RevisionsStart(r, u, p) ==
  /\ Admit(r)
  /\ req' = [req EXCEPT ![r] = [Idle EXCEPT !.op = "getPostRevisions", !.pc = "gr_find",
               !.user = u, !.pid = p]]

\* lines 504-509
RevisionsFind(r) ==
  /\ req[r].op = "getPostRevisions" /\ req[r].pc = "gr_find"
  /\ LET post == FindPost(req[r].pid) IN
       IF ~Found(post) THEN Finish(r, "NotFound")
       ELSE IF ~isOwnerOrAdmin(req[r].user, post.authorId) THEN Finish(r, "Forbidden")
       ELSE req' = [req EXCEPT ![r].doc = post, ![r].pc = "gr_list"]
  /\ StoreUnchanged

\* PostRevision.find({ postId }).sort({ createdAt: -1 }); equal keys come in any order
RevisionsList(r) ==
  /\ req[r].op = "getPostRevisions" /\ req[r].pc = "gr_list"
  /\ \E list \in [1..Len(RevsOf(req[r].pid)) -> {revisions[i] : i \in 1..Len(revisions)}] :
       /\ IsPermutationOf(list, RevsOf(req[r].pid))
       /\ SortedNewestFirst(list)
       /\ req' = [req EXCEPT ![r] = [Response(req[r], "ok") EXCEPT !.out = list]]
  /\ StoreUnchanged

(* --------------------------- admin handlers ---------------------------- *)
AdminDeleteStart(r, p) ==
  /\ Admit(r)
  /\ req' = [req EXCEPT ![r] = [Idle EXCEPT !.op = "adminDeletePost", !.pc = "ad_find",
               !.user = AdminUser, !.pid = p]]

\* lines 79-88
AdminDeleteFind(r) ==
  /\ req[r].op = "adminDeletePost" /\ req[r].pc = "ad_find"
  /\ LET post == FindPost(req[r].pid) IN
       IF ~Found(post) THEN Finish(r, "NotFound")
       ELSE IF post.isDeleted THEN Finish(r, "BadRequest")
       ELSE req' = [req EXCEPT ![r].doc = post, ![r].pc = "ad_save"]
  /\ StoreUnchanged

AdminDeleteSave(r) ==
  /\ req[r].op = "adminDeletePost" /\ req[r].pc = "ad_save"
  /\ SavePost(r, [req[r].doc EXCEPT !.isDeleted = TRUE, !.status = "archived"])

AdminRestoreStart(r, p) ==
  /\ Admit(r)
  /\ req' = [req EXCEPT ![r] = [Idle EXCEPT !.op = "adminRestorePost", !.pc = "ar_find",
               !.user = AdminUser, !.pid = p]]

\* every post can be restored
NotRestorable_Never(post) == FALSE

\* if (!post.isDeleted) return res.status(400)
NotRestorable(post) == ~post.isDeleted

\* lines 147-157
AdminRestoreFind(r) ==
  /\ req[r].op = "adminRestorePost" /\ req[r].pc = "ar_find"
  /\ LET post == FindPost(req[r].pid) IN
       IF ~Found(post) THEN Finish(r, "NotFound")
       ELSE IF NotRestorable(post) THEN Finish(r, "BadRequest")
       ELSE req' = [req EXCEPT ![r].doc = post, ![r].pc = "ar_save"]
  /\ StoreUnchanged

\* a restore that always lands on draft
AdminRestored_Draft(q) == [q.doc EXCEPT !.isDeleted = FALSE, !.status = "draft"]

\* lines 154-157: the in-memory document when save() is called
AdminRestored(q) ==
  [q.doc EXCEPT !.isDeleted = FALSE,
                !.status = IF q.doc.publishedAt # 0 THEN "published" ELSE "draft"]

AdminRestoreSave(r) ==
  /\ req[r].op = "adminRestorePost" /\ req[r].pc = "ar_save"
  /\ SavePost(r, AdminRestored(req[r]))

\* every id of the batch is taken for well-formed
isValidObjectId_Any(i) == TRUE

\* mongoose.isValidObjectId(i): the malformed id of the model is 0
isValidObjectId(i) == i # 0

\* lines 174-190: up to await Post.updateMany
BulkPublishStart(r, ids, publish) ==
  /\ Admit(r)
  /\ IF ids = {} \/ {i \in ids : isValidObjectId(i)} = {}
       THEN req' = [req EXCEPT ![r] = [Idle EXCEPT !.op = "adminBulkPublish",
                       !.pc = "done", !.res = "BadRequest", !.user = AdminUser, !.ids = ids]]
     ELSE req' = [req EXCEPT ![r] = [Idle EXCEPT !.op = "adminBulkPublish", !.pc = "bp_update",
                     !.user = AdminUser, !.ids = ids,
                     !.publish = publish, !.now = clock]]

\* a bulk publication that writes the status alone
BulkSet_StatusOnly(d, publish, now) ==
  [d EXCEPT !.status = IF publish THEN "published" ELSE "draft"]

\* the $set document of lines 180-188 applied to one post
BulkSet(d, publish, now) ==
  IF publish THEN [d EXCEPT !.status = "published", !.publishedAt = now]
  ELSE [d EXCEPT !.status = "draft"]

\* await Post.updateMany({ _id: { $in: validIds } }, { $set: update })
BulkPublishUpdate(r) ==
  /\ req[r].op = "adminBulkPublish" /\ req[r].pc = "bp_update"
  /\ \A p \in req[r].ids : ~LockedByTxn(p)
  /\ LET validIds == {i \in req[r].ids : isValidObjectId(i)}
         matched == validIds \cap DOMAIN posts
         modified == {p \in matched : BulkSet(posts[p], req[r].publish, req[r].now) # posts[p]} IN
       /\ posts' = [p \in DOMAIN posts |->
                      IF p \in matched THEN BulkSet(posts[p], req[r].publish, req[r].now)
                      ELSE posts[p]]
       /\ req' = [req EXCEPT ![r] = [Response(req[r], "ok") EXCEPT
                    !.ids = req[r].ids, !.publish = req[r].publish,
                    !.out = <<Cardinality(matched), Cardinality(modified)>>]]
  /\ UNCHANGED <<revisions, comments, nextPostId, nextRevId, nextComId, clock, started, retired>>

(* ------------------------ adminForceDeletePost ------------------------- *)
\* what a sub-deletion can do: succeed; reject while the transaction stays
\* usable; reject because the server aborted the transaction
Outcomes == {"ok", "rejected", "aborted"}

\* lines 103-104: the session is started and the transaction opened
ForceDeleteStart(r, p) ==
  /\ Admit(r)
  /\ req' = [req EXCEPT ![r] = [Idle EXCEPT !.op = "adminForceDeletePost", !.pc = "fd_find",
               !.user = AdminUser, !.pid = p, !.txAlive = TRUE]]

\* the sub-deletion takes every revision of the collection
RevIdsOf_All(p) == {revisions[i].id : i \in 1..Len(revisions)}

\* the filter { postId: id } of line 121
RevIdsOf(p) == {revisions[i].id : i \in {j \in 1..Len(revisions) : revisions[j].postId = p}}

\* lines 113-118: first read of the transaction, which fixes its snapshot
ForceDeleteFind(r) ==
  /\ req[r].op = "adminForceDeletePost" /\ req[r].pc = "fd_find"
  /\ LET post == FindPost(req[r].pid) IN
       IF ~Found(post) THEN Finish(r, "NotFound")
       ELSE req' = [req EXCEPT ![r].doc = post, ![r].pc = "fd_revs",
                      ![r].stRevs = RevIdsOf(req[r].pid),
                      ![r].stComs = {c \in DOMAIN comments : comments[c].postId = req[r].pid}]
  /\ StoreUnchanged

\* line 121: await PostRevision.deleteMany(...).session(session).catch(() => {})
ForceDeleteRevs(r) ==
  /\ req[r].op = "adminForceDeletePost" /\ req[r].pc = "fd_revs"
  /\ \E o \in Outcomes :
       req' = [req EXCEPT ![r].pc = "fd_coms",
                          ![r].okRevs = (o = "ok"),
                          ![r].txAlive = (o # "aborted")]
  /\ StoreUnchanged

\* line 123: await Comment.deleteMany(...).session(session).catch(() => {})
ForceDeleteComments(r) ==
  /\ req[r].op = "adminForceDeletePost" /\ req[r].pc = "fd_coms"
  /\ \E o \in Outcomes :
       /\ req[r].txAlive \/ o = "aborted"
       /\ req' = [req EXCEPT ![r].pc = "fd_post",
                             ![r].okComs = (o = "ok"),
                             ![r].txAlive = (o # "aborted")]
  /\ StoreUnchanged

\* line 125: await Post.deleteOne(...).session(session); a rejection is not caught here
ForceDeletePost(r) ==
  /\ req[r].op = "adminForceDeletePost" /\ req[r].pc = "fd_post"
  /\ \E o \in Outcomes :
       IF ~req[r].txAlive \/ o # "ok" THEN
         Finish(r, "StorageError")
       ELSE IF FindPost(req[r].pid) # req[r].doc \/ LockedByTxn(req[r].pid) THEN
         Finish(r, "WriteConflict")
       ELSE req' = [req EXCEPT ![r].pc = "fd_commit"]
  /\ StoreUnchanged

RECURSIVE WithoutIds(_, _)
WithoutIds(revs, ids) ==
  IF revs = << >> THEN << >>
  ELSE IF Head(revs).id \in ids THEN WithoutIds(Tail(revs), ids)
  ELSE <<Head(revs)>> \o WithoutIds(Tail(revs), ids)

\* lines 127-135: await session.commitTransaction()
ForceDeleteCommit(r) ==
  /\ req[r].op = "adminForceDeletePost" /\ req[r].pc = "fd_commit"
  /\ \E dbOk \in BOOLEAN :
       IF dbOk THEN
         LET delRevs == IF req[r].okRevs THEN req[r].stRevs ELSE {}
             delComs == IF req[r].okComs THEN req[r].stComs ELSE {} IN
         /\ revisions' = WithoutIds(revisions, delRevs)
         /\ comments' = [c \in DOMAIN comments \ delComs |-> comments[c]]
         /\ posts' = [q \in DOMAIN posts \ {req[r].pid} |-> posts[q]]
         /\ Finish(r, "ok")
       ELSE
         /\ Finish(r, "StorageError")
         /\ UNCHANGED <<posts, revisions, comments>>
  /\ UNCHANGED <<nextPostId, nextRevId, nextComId, clock, started, retired>>

(* ------------------------------- reads --------------------------------- *)
ReadOps == {"listPosts", "searchPosts", "getPostBySlug", "getPostById", "getAuthorPosts",
            "getDrafts"}

\* the reads do not look at isDeleted
NotDeleted_Any(d) == TRUE

\* isDeleted: { $ne: true } in the filters, !post.isDeleted in getPostById
NotDeleted(d) == d.isDeleted # TRUE

\* the ids of the posts each read's query selects; user is req.user (NoUser
\* for an anonymous reader), id the :id or :authorId parameter, slug the :slug
Selected(op, user, id, slug) ==
  CASE op \in {"listPosts", "searchPosts"} ->
         {p \in DOMAIN posts : posts[p].status = "published" /\ NotDeleted(posts[p])}
    [] op = "getPostBySlug" ->
         {p \in DOMAIN posts : /\ posts[p].slug = slug /\ NotDeleted(posts[p])
                               /\ posts[p].status = "published"}
    [] op = "getPostById" ->
         {p \in DOMAIN posts \cap {id} : NotDeleted(posts[p])}
    [] op = "getAuthorPosts" ->
         {p \in DOMAIN posts :
            /\ posts[p].authorId = id /\ NotDeleted(posts[p])
            /\ \/ user.id # 0 /\ (user.role = "admin" \/ user.id = id)
               \/ posts[p].status = "published"}
    [] OTHER ->
         {p \in DOMAIN posts : /\ posts[p].authorId = user.id
                               /\ posts[p].status \in {"draft", "pending"}
                               /\ NotDeleted(posts[p])}

\* the status each read answers with
ReadStatus(op, user, id, slug) ==
  CASE op \in {"getPostBySlug", "getPostById"} /\ Selected(op, user, id, slug) = {} -> "NotFound"
    [] /\ op = "getPostById" /\ Selected(op, user, id, slug) # {}
       /\ posts[id].status # "published"
       /\ ~(user.id # 0 /\ isOwnerOrAdmin(user, posts[id].authorId)) -> "Forbidden"
    [] op = "getDrafts" /\ user.id = 0 -> "Unauthorized"
    [] OTHER -> "ok"

\* a set of post ids as the list the response carries
IdList(S) == SelectSeq([i \in 1..MaxPosts |-> i], LAMBDA i : i \in S)

\* a read: its one query and its response
Read(r, op, user, id, slug) ==
  /\ Admit(r)
  /\ LET res == ReadStatus(op, user, id, slug)
         items == IF res = "ok" THEN Selected(op, user, id, slug) ELSE {} IN
       req' = [req EXCEPT ![r] =
                 [Response([Idle EXCEPT !.op = op, !.user = user, !.pid = id], res)
                    EXCEPT !.out = IdList(items)]]

(* ------------------------- comment moderation -------------------------- *)
CommentIds == 1..MaxComments

\* Comment.findById(id): the document or null
FindComment(c) == IF c \in DOMAIN comments THEN comments[c] ELSE NoCom

\* the first await of the four handlers: Comment.findById(id)
CommentStart(r, op, u, c) ==
  /\ Admit(r)
  /\ req' = [req EXCEPT ![r] = [Idle EXCEPT !.op = op, !.pc = "cm_find", !.user = u, !.cid = c]]

\* if (!comment) return 404; deleteOwnComment then checks the ownership
CommentFind(r) ==
  /\ req[r].pc = "cm_find"
  /\ LET comment == FindComment(req[r].cid) IN
       IF comment = NoCom THEN Finish(r, "NotFound")
       ELSE IF /\ req[r].op = "deleteOwnComment"
               /\ comment.authorId # 0 /\ comment.authorId # req[r].user.id
               /\ req[r].user.role # "admin"
         THEN Finish(r, "Forbidden")
       ELSE req' = [req EXCEPT ![r].com = comment, ![r].pc = "cm_save"]
  /\ StoreUnchanged

\* the assignments each handler makes to the loaded comment before save()
Moderated(q) ==
  CASE q.op = "approveComment" -> [q.com EXCEPT !.status = "approved", !.moderatedBy = q.user.id]
    [] q.op = "rejectComment" -> [q.com EXCEPT !.status = "rejected", !.moderatedBy = q.user.id]
    [] q.op = "deleteComment" -> [q.com EXCEPT !.isDeleted = TRUE, !.moderatedBy = q.user.id]
    [] OTHER -> [q.com EXCEPT !.isDeleted = TRUE]

\* approveComment and rejectComment assign updatedAt = new Date(), so their
\* save() always writes; the two deletions write only what they changed
AlwaysWrites(q) == q.op \in {"approveComment", "rejectComment"}

\* the counter adjustment that follows the save, 0 when there is none
CountDelta(q) ==
  CASE q.op = "approveComment" -> IF q.com.postId # 0 THEN 1 ELSE 0
    [] q.op = "rejectComment" -> 0
    [] OTHER -> IF q.com.postId # 0 /\ q.com.status = "approved" THEN 0 - 1 ELSE 0

\* await comment.save()
CommentSave(r) ==
  /\ req[r].pc = "cm_save"
  /\ LET c == req[r].cid
         modified == Moderated(req[r])
         next == [req[r] EXCEPT !.com = modified, !.pc = "cm_count"] IN
       \E dbOk \in BOOLEAN :
         IF modified = req[r].com /\ ~AlwaysWrites(req[r]) THEN
           /\ comments' = comments
           /\ req' = [req EXCEPT ![r] = IF CountDelta(next) = 0 THEN Response(next, "ok") ELSE next]
         ELSE IF c \notin DOMAIN comments \/ ~dbOk THEN
           /\ comments' = comments
           /\ Finish(r, IF c \notin DOMAIN comments THEN "DocumentNotFoundError" ELSE "StorageError")
         ELSE
           /\ comments' = [comments EXCEPT ![c] = Merge(comments[c], req[r].com, modified)]
           /\ req' = [req EXCEPT ![r] = IF CountDelta(next) = 0 THEN Response(next, "ok") ELSE next]
  /\ UNCHANGED <<posts, revisions, nextPostId, nextRevId, nextComId, clock, started, retired>>

\* await Post.findByIdAndUpdate(comment.postId, { $inc: { commentCount: d } }).catch(() => {})
CommentCount(r) ==
  /\ req[r].pc = "cm_count"
  /\ LET p == req[r].com.postId IN
       /\ ~LockedByTxn(p)
       /\ \E dbOk \in BOOLEAN :
            posts' = IF dbOk /\ p \in DOMAIN posts
                       THEN [posts EXCEPT ![p].commentCount = @ + CountDelta(req[r])]
                       ELSE posts
  /\ Finish(r, "ok")
  /\ UNCHANGED <<revisions, comments, nextPostId, nextRevId, nextComId, clock, started, retired>>

(* ------------------------- environment steps --------------------------- *)
\* time passes
Tick ==
  /\ clock < MaxClock
  /\ clock' = clock + 1
  /\ UNCHANGED <<posts, revisions, comments, nextPostId, nextRevId, nextComId, started, req, retired>>

\* a reader leaves a comment on a post: Comment schema defaults
AddComment(p) ==
  /\ p \in DOMAIN posts
  /\ nextComId <= MaxComments
  /\ comments' = comments @@ (nextComId :> [postId |-> p, authorId |-> Stranger.id, status |-> "pending",
                                             moderatedBy |-> 0, isDeleted |-> FALSE])
  /\ nextComId' = nextComId + 1
  /\ UNCHANGED <<posts, revisions, nextPostId, nextRevId, clock, started, req, retired>>

(* --------------------------- specifications ---------------------------- *)
\* every handler, every input
Next ==
  \/ \E r \in Reqs, u \in Users, t \in Titles, b \in Bodies, s \in {NoStatus, "published"} :
       CreateStart(r, u, t, b, s)
  \/ \E r \in Reqs : CreateProbe(r) \/ CreateSave(r)
  \/ \E r \in Reqs, u \in Users, p \in PostIds, t \in Titles \cup {NoTitle},
        b \in Bodies \cup {NoBody}, s \in PatchStatuses \cup {NoStatus} :
       UpdateStart(r, u, p, t, b, s)
  \/ \E r \in Reqs : UpdateFind(r) \/ UpdateRevSave(r) \/ UpdateProbe(r) \/ UpdateSave(r)
  \/ \E r \in Reqs, u \in Users, p \in PostIds, v \in RevIds : RestoreStart(r, u, p, v)
  \/ \E r \in Reqs : RestoreFind(r) \/ RestoreFindRev(r) \/ RestoreRevSave(r) \/ RestoreSave(r)
  \/ \E r \in Reqs, u \in Users, p \in PostIds :
       DeleteStart(r, u, p) \/ PublishStart(r, u, p) \/ UnpublishStart(r, u, p)
         \/ RevisionsStart(r, u, p)
  \/ \E r \in Reqs : DeleteFind(r) \/ DeleteSave(r) \/ PublishFind(r) \/ PublishSave(r)
  \/ \E r \in Reqs : UnpublishFind(r) \/ UnpublishSave(r) \/ RevisionsFind(r) \/ RevisionsList(r)
  \/ \E r \in Reqs, p \in PostIds :
       AdminDeleteStart(r, p) \/ AdminRestoreStart(r, p) \/ ForceDeleteStart(r, p)
  \/ \E r \in Reqs : AdminDeleteFind(r) \/ AdminDeleteSave(r)
  \/ \E r \in Reqs : AdminRestoreFind(r) \/ AdminRestoreSave(r)
  \/ \E r \in Reqs, ids \in SUBSET (PostIds \cup {0}), b \in BOOLEAN : BulkPublishStart(r, ids, b)
  \/ \E r \in Reqs : BulkPublishUpdate(r)
  \/ \E r \in Reqs : ForceDeleteFind(r) \/ ForceDeleteRevs(r) \/ ForceDeleteComments(r)
  \/ \E r \in Reqs : ForceDeletePost(r) \/ ForceDeleteCommit(r)
  \/ \E p \in PostIds : AddComment(p)
  \/ \E r \in Reqs, c \in CommentIds :
       \/ CommentStart(r, "approveComment", AdminUser, c)
       \/ CommentStart(r, "rejectComment", AdminUser, c)
       \/ CommentStart(r, "deleteComment", AdminUser, c)
  \/ \E r \in Reqs, c \in CommentIds, u \in Users \cup {Stranger} :
       CommentStart(r, "deleteOwnComment", u, c)
  \/ \E r \in Reqs : CommentFind(r) \/ CommentSave(r) \/ CommentCount(r)
  \/ \E r \in Reqs, op \in ReadOps, u \in Users \cup {Stranger, NoUser}, p \in PostIds,
        t \in Titles : Read(r, op, u, p, slugify(t))
  \/ Tick

Spec == Init /\ [][Next]_vars

\* content and slugs: two authors' requests at a time, titles that collide
NextContent ==
  \/ \E r \in Reqs, t \in Titles : CreateStart(r, Author, t, "x", NoStatus)
  \/ \E r \in Reqs : CreateProbe(r)
  \/ \E r \in Reqs : CreateSave(r)
  \/ \E r \in Reqs, p \in PostIds, t \in Titles : UpdateStart(r, Author, p, t, NoBody, NoStatus)
  \/ \E r \in Reqs : UpdateFind(r)
  \/ \E r \in Reqs : UpdateRevSave(r)
  \/ \E r \in Reqs : UpdateProbe(r)
  \/ \E r \in Reqs : UpdateSave(r)
  \/ \E r \in Reqs, p \in PostIds, v \in RevIds : RestoreStart(r, Author, p, v)
  \/ \E r \in Reqs : RestoreFind(r)
  \/ \E r \in Reqs : RestoreFindRev(r)
  \/ \E r \in Reqs : RestoreRevSave(r)
  \/ \E r \in Reqs : RestoreSave(r)
  \/ \E r \in Reqs, p \in PostIds : DeleteStart(r, Author, p)
  \/ \E r \in Reqs : DeleteFind(r)
  \/ \E r \in Reqs : DeleteSave(r)
  \/ \E r \in Reqs, p \in PostIds : AdminRestoreStart(r, p)
  \/ \E r \in Reqs : AdminRestoreFind(r)
  \/ \E r \in Reqs : AdminRestoreSave(r)
  \/ \E r \in Reqs, p \in PostIds : BulkPublishStart(r, {p}, TRUE)
  \/ \E r \in Reqs : BulkPublishUpdate(r)

SpecContent == Init /\ [][NextContent]_vars

\* permanent deletion, next to an author who keeps editing
NextForce ==
  \/ \E r \in Reqs : CreateStart(r, Author, <<"a">>, "x", NoStatus)
  \/ \E r \in Reqs : CreateProbe(r)
  \/ \E r \in Reqs : CreateSave(r)
  \/ \E r \in Reqs, p \in PostIds : UpdateStart(r, Author, p, NoTitle, "y", NoStatus)
  \/ \E r \in Reqs : UpdateFind(r)
  \/ \E r \in Reqs : UpdateRevSave(r)
  \/ \E r \in Reqs : UpdateSave(r)
  \/ \E r \in Reqs, p \in PostIds : ForceDeleteStart(r, p)
  \/ \E r \in Reqs : ForceDeleteFind(r)
  \/ \E r \in Reqs : ForceDeleteRevs(r)
  \/ \E r \in Reqs : ForceDeleteComments(r)
  \/ \E r \in Reqs : ForceDeletePost(r)
  \/ \E r \in Reqs : ForceDeleteCommit(r)
  \/ \E p \in PostIds : AddComment(p)

SpecForce == Init /\ [][NextForce]_vars

\* one request at a time
SeqReqs == {1}

NextSeq ==
  \/ \E r \in SeqReqs : CreateStart(r, Author, <<"a">>, "x", NoStatus)
  \/ \E r \in SeqReqs : CreateProbe(r)
  \/ \E r \in SeqReqs : CreateSave(r)
  \/ \E r \in SeqReqs, p \in PostIds, t \in {NoTitle, <<"a">>, <<"A", "!">>}, b \in Bodies \cup {NoBody} :
       UpdateStart(r, Author, p, t, b, NoStatus)
  \/ \E r \in SeqReqs : UpdateFind(r)
  \/ \E r \in SeqReqs : UpdateRevSave(r)
  \/ \E r \in SeqReqs : UpdateSave(r)
  \/ \E r \in SeqReqs, p \in PostIds, v \in RevIds : RestoreStart(r, Author, p, v)
  \/ \E r \in SeqReqs : RestoreFind(r)
  \/ \E r \in SeqReqs : RestoreFindRev(r)
  \/ \E r \in SeqReqs : RestoreRevSave(r)
  \/ \E r \in SeqReqs : RestoreSave(r)
  \/ \E r \in SeqReqs, p \in PostIds : RevisionsStart(r, Author, p)
  \/ \E r \in SeqReqs : RevisionsFind(r)
  \/ \E r \in SeqReqs : RevisionsList(r)
  \/ Tick

SpecSeq == Init /\ [][NextSeq]_vars

\* publishing: an author and an administrator act on the same posts
NextPublish ==
  \/ \E r \in Reqs, u \in Users : CreateStart(r, u, <<"a">>, "x", NoStatus)
  \/ \E r \in Reqs : CreateProbe(r)
  \/ \E r \in Reqs : CreateSave(r)
  \/ \E r \in Reqs, u \in Users, p \in PostIds : PublishStart(r, u, p)
  \/ \E r \in Reqs : PublishFind(r)
  \/ \E r \in Reqs : PublishSave(r)
  \/ \E r \in Reqs, p \in PostIds : UnpublishStart(r, Author, p)
  \/ \E r \in Reqs : UnpublishFind(r)
  \/ \E r \in Reqs : UnpublishSave(r)
  \/ Tick

SpecPublish == Init /\ [][NextPublish]_vars

\* the lifecycle: authors and administrators act on the same posts
NextLife ==
  \/ \E r \in Reqs, u \in Users, s \in {NoStatus, "published"} : CreateStart(r, u, <<"a">>, "x", s)
  \/ \E r \in Reqs : CreateProbe(r)
  \/ \E r \in Reqs : CreateSave(r)
  \/ \E r \in Reqs, u \in Users, p \in PostIds : PublishStart(r, u, p)
  \/ \E r \in Reqs : PublishFind(r)
  \/ \E r \in Reqs : PublishSave(r)
  \/ \E r \in Reqs, u \in Users, p \in PostIds : UnpublishStart(r, u, p)
  \/ \E r \in Reqs : UnpublishFind(r)
  \/ \E r \in Reqs : UnpublishSave(r)
  \/ \E r \in Reqs, u \in Users, p \in PostIds : DeleteStart(r, u, p)
  \/ \E r \in Reqs : DeleteFind(r)
  \/ \E r \in Reqs : DeleteSave(r)
  \/ \E r \in Reqs, p \in PostIds : AdminRestoreStart(r, p)
  \/ \E r \in Reqs : AdminRestoreFind(r)
  \/ \E r \in Reqs : AdminRestoreSave(r)
  \/ \E r \in Reqs, p \in PostIds, b \in BOOLEAN : BulkPublishStart(r, {p}, b)
  \/ \E r \in Reqs : BulkPublishUpdate(r)
  \/ Tick

SpecLife == Init /\ [][NextLife]_vars

\* the trash: posts are soft-deleted and restored, one request after the other
NextTrash ==
  \/ \E r \in SeqReqs, u \in Users, s \in {NoStatus, "published"} : CreateStart(r, u, <<"a">>, "x", s)
  \/ \E r \in SeqReqs : CreateProbe(r)
  \/ \E r \in SeqReqs : CreateSave(r)
  \/ \E r \in SeqReqs, p \in PostIds : PublishStart(r, AdminUser, p)
  \/ \E r \in SeqReqs : PublishFind(r)
  \/ \E r \in SeqReqs : PublishSave(r)
  \/ \E r \in SeqReqs, p \in PostIds : UnpublishStart(r, Author, p)
  \/ \E r \in SeqReqs : UnpublishFind(r)
  \/ \E r \in SeqReqs : UnpublishSave(r)
  \/ \E r \in SeqReqs, p \in PostIds : DeleteStart(r, Author, p)
  \/ \E r \in SeqReqs : DeleteFind(r)
  \/ \E r \in SeqReqs : DeleteSave(r)
  \/ \E r \in SeqReqs, p \in PostIds : AdminDeleteStart(r, p)
  \/ \E r \in SeqReqs : AdminDeleteFind(r)
  \/ \E r \in SeqReqs : AdminDeleteSave(r)
  \/ \E r \in SeqReqs, p \in PostIds : AdminRestoreStart(r, p)
  \/ \E r \in SeqReqs : AdminRestoreFind(r)
  \/ \E r \in SeqReqs : AdminRestoreSave(r)

SpecTrash == Init /\ [][NextTrash]_vars

\* moderation: comments of one post are approved, rejected and deleted
NextComments ==
  \/ \E r \in Reqs : CreateStart(r, Author, <<"a">>, "x", NoStatus)
  \/ \E r \in Reqs : CreateProbe(r)
  \/ \E r \in Reqs : CreateSave(r)
  \/ \E p \in PostIds : AddComment(p)
  \/ \E r \in Reqs, c \in CommentIds : CommentStart(r, "approveComment", AdminUser, c)
  \/ \E r \in Reqs, c \in CommentIds : CommentStart(r, "rejectComment", AdminUser, c)
  \/ \E r \in Reqs, c \in CommentIds : CommentStart(r, "deleteComment", AdminUser, c)
  \/ \E r \in Reqs, c \in CommentIds, u \in {Stranger, Author} :
       CommentStart(r, "deleteOwnComment", u, c)
  \/ \E r \in Reqs : CommentFind(r)
  \/ \E r \in Reqs : CommentSave(r)
  \/ \E r \in Reqs : CommentCount(r)

SpecComments == Init /\ [][NextComments]_vars

\* statuses: every way a status is written, by authors and administrators
NextStatus ==
  \/ \E r \in Reqs, u \in Users, s \in {NoStatus, "published"} : CreateStart(r, u, <<"a">>, "x", s)
  \/ \E r \in Reqs : CreateProbe(r)
  \/ \E r \in Reqs : CreateSave(r)
  \/ \E r \in Reqs, u \in Users, p \in PostIds, s \in PatchStatuses :
       UpdateStart(r, u, p, NoTitle, NoBody, s)
  \/ \E r \in Reqs : UpdateFind(r)
  \/ \E r \in Reqs : UpdateSave(r)
  \/ \E r \in Reqs, u \in Users, p \in PostIds : PublishStart(r, u, p)
  \/ \E r \in Reqs : PublishFind(r)
  \/ \E r \in Reqs : PublishSave(r)
  \/ \E r \in Reqs, p \in PostIds : UnpublishStart(r, Author, p)
  \/ \E r \in Reqs : UnpublishFind(r)
  \/ \E r \in Reqs : UnpublishSave(r)
  \/ \E r \in Reqs, p \in PostIds : DeleteStart(r, Author, p)
  \/ \E r \in Reqs : DeleteFind(r)
  \/ \E r \in Reqs : DeleteSave(r)

SpecStatus == Init /\ [][NextStatus]_vars

\* ownership: the owner and a stranger send the same requests
NextGuard ==
  \/ \E r \in Reqs : CreateStart(r, Author, <<"a">>, "x", NoStatus)
  \/ \E r \in Reqs : CreateProbe(r)
  \/ \E r \in Reqs : CreateSave(r)
  \/ \E r \in Reqs, u \in {Author, Stranger}, p \in PostIds : UpdateStart(r, u, p, NoTitle, "y", NoStatus)
  \/ \E r \in Reqs : UpdateFind(r)
  \/ \E r \in Reqs : UpdateRevSave(r)
  \/ \E r \in Reqs : UpdateSave(r)
  \/ \E r \in Reqs, u \in {Author, Stranger}, p \in PostIds, v \in RevIds : RestoreStart(r, u, p, v)
  \/ \E r \in Reqs : RestoreFind(r)
  \/ \E r \in Reqs : RestoreFindRev(r)
  \/ \E r \in Reqs : RestoreRevSave(r)
  \/ \E r \in Reqs : RestoreSave(r)
  \/ \E r \in Reqs, u \in {Author, Stranger}, p \in PostIds : DeleteStart(r, u, p)
  \/ \E r \in Reqs : DeleteFind(r)
  \/ \E r \in Reqs : DeleteSave(r)
  \/ \E r \in Reqs, u \in {Author, Stranger}, p \in PostIds : PublishStart(r, u, p)
  \/ \E r \in Reqs : PublishFind(r)
  \/ \E r \in Reqs : PublishSave(r)
  \/ \E r \in Reqs, u \in {Author, Stranger}, p \in PostIds : UnpublishStart(r, u, p)
  \/ \E r \in Reqs : UnpublishFind(r)
  \/ \E r \in Reqs : UnpublishSave(r)

SpecGuard == Init /\ [][NextGuard]_vars

\* history: everything that touches a post next to its permanent deletion
NextHistory ==
  \/ \E r \in Reqs : CreateStart(r, Author, <<"a">>, "x", NoStatus)
  \/ \E r \in Reqs : CreateProbe(r)
  \/ \E r \in Reqs : CreateSave(r)
  \/ \E r \in Reqs, p \in PostIds : UpdateStart(r, Author, p, NoTitle, "y", NoStatus)
  \/ \E r \in Reqs : UpdateFind(r)
  \/ \E r \in Reqs : UpdateRevSave(r)
  \/ \E r \in Reqs : UpdateSave(r)
  \/ \E r \in Reqs, p \in PostIds, v \in RevIds : RestoreStart(r, Author, p, v)
  \/ \E r \in Reqs : RestoreFind(r)
  \/ \E r \in Reqs : RestoreFindRev(r)
  \/ \E r \in Reqs : RestoreRevSave(r)
  \/ \E r \in Reqs : RestoreSave(r)
  \/ \E r \in Reqs, p \in PostIds : DeleteStart(r, Author, p)
  \/ \E r \in Reqs : DeleteFind(r)
  \/ \E r \in Reqs : DeleteSave(r)
  \/ \E r \in Reqs, p \in PostIds : AdminRestoreStart(r, p)
  \/ \E r \in Reqs : AdminRestoreFind(r)
  \/ \E r \in Reqs : AdminRestoreSave(r)
  \/ \E r \in Reqs, p \in PostIds : PublishStart(r, AdminUser, p)
  \/ \E r \in Reqs : PublishFind(r)
  \/ \E r \in Reqs : PublishSave(r)
  \/ \E r \in Reqs, p \in PostIds : UnpublishStart(r, Author, p)
  \/ \E r \in Reqs : UnpublishFind(r)
  \/ \E r \in Reqs : UnpublishSave(r)
  \/ \E r \in Reqs, p \in PostIds : BulkPublishStart(r, {p}, TRUE)
  \/ \E r \in Reqs : BulkPublishUpdate(r)
  \/ \E r \in Reqs, p \in PostIds : ForceDeleteStart(r, p)
  \/ \E r \in Reqs : ForceDeleteFind(r)
  \/ \E r \in Reqs : ForceDeleteRevs(r)
  \/ \E r \in Reqs : ForceDeleteComments(r)
  \/ \E r \in Reqs : ForceDeletePost(r)
  \/ \E r \in Reqs : ForceDeleteCommit(r)

SpecHistory == Init /\ [][NextHistory]_vars

\* slugs: posts are created and retitled over two bases
NextSlug ==
  \/ \E r \in Reqs, t \in {<<"a">>, <<"b">>} : CreateStart(r, Author, t, "x", NoStatus)
  \/ \E r \in Reqs : CreateProbe(r)
  \/ \E r \in Reqs : CreateSave(r)
  \/ \E r \in Reqs, p \in PostIds, t \in {<<"a">>, <<"b">>} :
       UpdateStart(r, Author, p, t, NoBody, NoStatus)
  \/ \E r \in Reqs : UpdateFind(r)
  \/ \E r \in Reqs : UpdateRevSave(r)
  \/ \E r \in Reqs : UpdateProbe(r)
  \/ \E r \in Reqs : UpdateSave(r)
  \/ \E r \in Reqs, p \in PostIds : DeleteStart(r, Author, p)
  \/ \E r \in Reqs : DeleteFind(r)
  \/ \E r \in Reqs : DeleteSave(r)

SpecSlug == Init /\ [][NextSlug]_vars

\* reads: what the public sees of posts that are deleted, then touched again
NextRead ==
  \/ \E r \in SeqReqs, u \in Users, s \in {NoStatus, "published"} : CreateStart(r, u, <<"a">>, "x", s)
  \/ \E r \in SeqReqs : CreateProbe(r)
  \/ \E r \in SeqReqs : CreateSave(r)
  \/ \E r \in SeqReqs, p \in PostIds : DeleteStart(r, Author, p)
  \/ \E r \in SeqReqs : DeleteFind(r)
  \/ \E r \in SeqReqs : DeleteSave(r)
  \/ \E r \in SeqReqs, p \in PostIds : UnpublishStart(r, Author, p)
  \/ \E r \in SeqReqs : UnpublishFind(r)
  \/ \E r \in SeqReqs : UnpublishSave(r)
  \/ \E r \in SeqReqs, p \in PostIds : BulkPublishStart(r, {p}, TRUE)
  \/ \E r \in SeqReqs : BulkPublishUpdate(r)
  \/ \E r \in SeqReqs, op \in ReadOps, u \in {NoUser, Author, AdminUser}, p \in PostIds :
       Read(r, op, u, p, <<"a">>)

SpecRead == Init /\ [][NextRead]_vars

\* batches: bulk publication over known, unknown and malformed ids
NextBulk ==
  \/ \E r \in Reqs, u \in Users, s \in {NoStatus, "published"} : CreateStart(r, u, <<"a">>, "x", s)
  \/ \E r \in Reqs : CreateProbe(r)
  \/ \E r \in Reqs : CreateSave(r)
  \/ \E r \in Reqs, ids \in SUBSET (PostIds \cup {0}), b \in BOOLEAN : BulkPublishStart(r, ids, b)
  \/ \E r \in Reqs : BulkPublishUpdate(r)
  \/ Tick

SpecBulk == Init /\ [][NextBulk]_vars

\* probing: posts are created and retitled one request after the other
NextProbe ==
  \/ \E r \in SeqReqs, t \in {<<"a">>, <<"b">>} : CreateStart(r, Author, t, "x", NoStatus)
  \/ \E r \in SeqReqs : CreateProbe(r)
  \/ \E r \in SeqReqs : CreateSave(r)
  \/ \E r \in SeqReqs, p \in PostIds, t \in {<<"a">>, <<"b">>} :
       UpdateStart(r, Author, p, t, NoBody, NoStatus)
  \/ \E r \in SeqReqs : UpdateFind(r)
  \/ \E r \in SeqReqs : UpdateRevSave(r)
  \/ \E r \in SeqReqs : UpdateProbe(r)
  \/ \E r \in SeqReqs : UpdateSave(r)
  \/ \E r \in SeqReqs, p \in PostIds : DeleteStart(r, Author, p)
  \/ \E r \in SeqReqs : DeleteFind(r)
  \/ \E r \in SeqReqs : DeleteSave(r)

SpecProbe == Init /\ [][NextProbe]_vars

\* publication: every handler that can store the status published
NextPublished ==
  \/ \E r \in Reqs, u \in Users, s \in {NoStatus, "published"} : CreateStart(r, u, <<"a">>, "x", s)
  \/ \E r \in Reqs : CreateProbe(r)
  \/ \E r \in Reqs : CreateSave(r)
  \/ \E r \in Reqs, u \in Users, p \in PostIds : UpdateStart(r, u, p, NoTitle, NoBody, "published")
  \/ \E r \in Reqs : UpdateFind(r)
  \/ \E r \in Reqs : UpdateSave(r)
  \/ \E r \in Reqs, p \in PostIds : PublishStart(r, AdminUser, p)
  \/ \E r \in Reqs : PublishFind(r)
  \/ \E r \in Reqs : PublishSave(r)
  \/ \E r \in Reqs, p \in PostIds : UnpublishStart(r, Author, p)
  \/ \E r \in Reqs : UnpublishFind(r)
  \/ \E r \in Reqs : UnpublishSave(r)
  \/ \E r \in Reqs, p \in PostIds : DeleteStart(r, Author, p)
  \/ \E r \in Reqs : DeleteFind(r)
  \/ \E r \in Reqs : DeleteSave(r)
  \/ \E r \in Reqs, p \in PostIds : AdminRestoreStart(r, p)
  \/ \E r \in Reqs : AdminRestoreFind(r)
  \/ \E r \in Reqs : AdminRestoreSave(r)
  \/ \E r \in Reqs, p \in PostIds, b \in BOOLEAN : BulkPublishStart(r, {p}, b)
  \/ \E r \in Reqs : BulkPublishUpdate(r)

SpecPublished == Init /\ [][NextPublished]_vars

(* ------------------------------ claims --------------------------------- *)
\* the step taken is the last one of handler op in slot r, and it reports res
Returns(r, op, res) ==
  /\ req[r].op = op /\ req[r].pc # "done"
  /\ req'[r].pc = "done" /\ req'[r].res = res

Live(p) == p \in DOMAIN posts /\ ~posts[p].isDeleted

\* C1: in every reachable state no two non-deleted posts have the same slug.
C1_SlugsUnique ==
  \A p \in DOMAIN posts, q \in DOMAIN posts :
    (p # q /\ Live(p) /\ Live(q)) => posts[p].slug # posts[q].slug

\* two live posts whose titles normalise to the same base
C1_Witness ==
  \E p \in DOMAIN posts, q \in DOMAIN posts :
    /\ p # q /\ Live(p) /\ Live(q)
    /\ slugify(posts[p].title) = slugify(posts[q].title)

\* C2: a createPost that loses the race for a slug is retried with the next
\* candidate, so no createPost ends with the storage layer's duplicate-key
\* rejection as its result.
C2_RaceIsRetried ==
  \A r \in Reqs :
    (req[r].op = "createPost" /\ req[r].pc = "done") => req[r].res # "DuplicateKey"

\* C3: when adminForceDeletePost reports success for a post id, the store then
\* holds no post with that id, no revision of it and no comment on it.
C3_ForceDeleteRemovesAll ==
  [][\A r \in Reqs :
       Returns(r, "adminForceDeletePost", "ok") =>
         /\ req[r].pid \notin DOMAIN posts'
         /\ \A i \in 1..Len(revisions') : revisions'[i].postId # req[r].pid
         /\ \A c \in DOMAIN comments' : comments'[c].postId # req[r].pid]_vars

\* C4: once one of the sub-deletions of adminForceDeletePost has failed, the
\* handler's remaining steps delete nothing and it does not report success.
C4_ForceDeleteAllOrNothing ==
  [][\A r \in Reqs :
       ( /\ req[r].op = "adminForceDeletePost"
         /\ req[r].pc \in {"fd_post", "fd_commit"}
         /\ ~(req[r].okRevs /\ req[r].okComs)
         /\ req'[r] # req[r] ) =>
         /\ posts' = posts /\ revisions' = revisions /\ comments' = comments
         /\ ~(req'[r].pc = "done" /\ req'[r].res = "ok")]_vars

\* the revision with a given id, NoRev when the store has none
NoRev == [id |-> 0, postId |-> 0, editorId |-> 0, title |-> NoTitle, content |-> NoBody,
          createdAt |-> 0]

RevById(id) == IF RevIndex(id) = 0 THEN NoRev ELSE revisions[RevIndex(id)]

\* C5: edits of one post are serializable: the content an updatePost or a
\* restoreRevision overwrites is the content its own snapshot preserved, so no
\* edit is lost from both the post and the revision trail and no state is
\* snapshotted twice.
C5_EditsSerializable ==
  [][\A r \in Reqs :
       ( /\ Returns(r, "updatePost", "ok") \/ Returns(r, "restoreRevision", "ok")
         /\ req[r].rev # 0 ) =>
         /\ RevById(req[r].rev).title = posts[req[r].pid].title
         /\ RevById(req[r].rev).content = posts[req[r].pid].body]_vars

\* the only way the revision collection changes in a step of slot r: the
\* handler's one snapshot is appended
AppendsOwnSnapshot(r) ==
  (req'[r] # req[r] /\ revisions' # revisions) =>
    /\ req[r].rev = 0 /\ req'[r].rev = nextRevId
    /\ Len(revisions') = Len(revisions) + 1
    /\ SubSeq(revisions', 1, Len(revisions)) = revisions
    /\ revisions'[Len(revisions')].id = nextRevId

\* C6: edited one request after the other, a post gains exactly one revision
\* per updatePost whose title or body differs from the stored one, holding
\* the title and body stored before that edit; an updatePost that changes
\* neither adds none; getPostRevisions returns the post's revisions, newest
\* first.
C6_RevisionPerEdit ==
  /\ [][\A r \in Reqs :
          /\ Returns(r, "updatePost", "ok") =>
               LET pre == posts[req[r].pid]
                   revs == RevsOf(req[r].pid)
                   differs == \/ req[r].title # NoTitle /\ req[r].title # pre.title
                              \/ req[r].body # NoBody /\ req[r].body # pre.body
               IN IF differs
                    THEN /\ req[r].rev # 0 /\ revs # << >>
                         /\ revs[Len(revs)].id = req[r].rev
                         /\ revs[Len(revs)].title = pre.title
                         /\ revs[Len(revs)].content = pre.body
                    ELSE req[r].rev = 0
          /\ AppendsOwnSnapshot(r)]_vars
  /\ [](\A r \in Reqs :
          (req[r].op = "getPostRevisions" /\ req[r].pc = "done" /\ req[r].res = "ok") =>
            /\ IsPermutationOf(req[r].out, RevsOf(req[r].pid))
            /\ \A i \in 1..Len(req[r].out), j \in 1..Len(req[r].out) :
                 i < j => req[r].out[i].createdAt >= req[r].out[j].createdAt)

\* a post edited twice, its two revisions listed with the newer one first
C6_Witness ==
  \E r \in Reqs :
    /\ req[r].op = "getPostRevisions" /\ req[r].pc = "done" /\ req[r].res = "ok"
    /\ Len(req[r].out) = 2
    /\ req[r].out[1].createdAt > req[r].out[2].createdAt
    /\ req[r].out[1].id > req[r].out[2].id
    /\ req[r].out[1].title # req[r].out[2].title \/ req[r].out[1].content # req[r].out[2].content

\* C7: restoreRevision leaves the post with the title and body of the revision
\* it names, and the revision list longer by exactly one revision, which
\* holds the title and body the post had before the restore.
C7_RestoreRoundTrip ==
  [][\A r \in Reqs :
       /\ Returns(r, "restoreRevision", "ok") =>
            LET p == req[r].pid
                revs == RevsOf(p)
            IN /\ posts'[p].title = RevById(req[r].revId).title
               /\ posts'[p].body = RevById(req[r].revId).content
               /\ revs # << >> /\ revs[Len(revs)].id = req[r].rev
               /\ revs[Len(revs)].title = posts[p].title
               /\ revs[Len(revs)].content = posts[p].body
       /\ req[r].op = "restoreRevision" => AppendsOwnSnapshot(r)]_vars

\* content C1 edited to C2 and restored: the post holds C1 again, C2 is the last revision
C7_Witness ==
  \E r \in Reqs :
    /\ req[r].op = "restoreRevision" /\ req[r].pc = "done" /\ req[r].res = "ok"
    /\ LET p == req[r].pid
           revs == RevsOf(p)
       IN /\ p \in DOMAIN posts /\ Len(revs) = 2
          /\ revs[1].id = req[r].revId /\ revs[2].id = req[r].rev
          /\ posts[p].title = revs[1].title /\ posts[p].body = revs[1].content
          /\ revs[2].title # revs[1].title \/ revs[2].content # revs[1].content

\* C8: a restoreRevision that fails leaves the revision list as it found it:
\* the snapshot it built is not in the store.
C8_RestoreAllOrNothing ==
  \A r \in Reqs :
    (req[r].op = "restoreRevision" /\ req[r].pc = "done" /\ req[r].res # "ok") =>
      (req[r].rev = 0 \/ RevIndex(req[r].rev) = 0)

\* C9: publishPost on a post it loaded as draft stores status pending and
\* leaves publishedAt alone when the caller is the non-admin owner, and stores
\* status published with a non-null publishedAt when the caller is an admin.
C9_PublishByRole ==
  [][\A r \in Reqs :
       (Returns(r, "publishPost", "ok") /\ req[r].doc.status = "draft") =>
         LET p == req[r].pid IN
         IF req[r].user.role = "admin"
           THEN posts'[p].status = "published" /\ posts'[p].publishedAt # 0
           ELSE /\ req[r].user.id = posts[p].authorId
                /\ posts'[p].status = "pending"
                /\ posts'[p].publishedAt = posts[p].publishedAt]_vars

\* a draft sent for review by its author next to one published by an admin
C9_Witness ==
  \E r \in Reqs, q \in Reqs :
    /\ req[r].op = "publishPost" /\ req[r].pc = "done" /\ req[r].res = "ok"
    /\ req[r].user.role = "author"
    /\ req[r].pid \in DOMAIN posts /\ posts[req[r].pid].status = "pending"
    /\ req[q].op = "publishPost" /\ req[q].pc = "done" /\ req[q].res = "ok"
    /\ req[q].user.role = "admin"
    /\ req[q].pid \in DOMAIN posts /\ posts[req[q].pid].status = "published"
    /\ posts[req[q].pid].publishedAt # 0

\* C10: once a post's publishedAt is non-null, no step changes it.
C10_PublishedAtSetOnce ==
  [][\A p \in DOMAIN posts :
       (posts[p].publishedAt # 0 /\ p \in DOMAIN posts') =>
         posts'[p].publishedAt = posts[p].publishedAt]_vars

\* C11: a soft-delete request (deletePost by the owner or an administrator,
\* adminDeletePost) that finds the post already soft-deleted ends there with
\* an error and leaves the post as it is.
C11_DoubleDeleteConflicts ==
  [][\A r \in Reqs :
       ( /\ req[r].op \in {"deletePost", "adminDeletePost"}
         /\ req[r].pc \in {"dp_find", "ad_find"}
         /\ req'[r] # req[r]
         /\ FindPost(req[r].pid).isDeleted
         /\ isOwnerOrAdmin(req[r].user, FindPost(req[r].pid).authorId) ) =>
         /\ req'[r].pc = "done" /\ req'[r].res \notin {"ok", "none"}
         /\ posts' = posts]_vars

\* C12: an adminRestorePost that finds the post not soft-deleted ends with an
\* error and leaves every field of the post unchanged.
C12_RestoreNeedsDeleted ==
  [][\A r \in Reqs :
       ( /\ req[r].op = "adminRestorePost" /\ req'[r] # req[r]
         /\ req[r].pc = "ar_find"
         /\ Found(FindPost(req[r].pid)) /\ ~FindPost(req[r].pid).isDeleted ) =>
         /\ req'[r].pc = "done" /\ req'[r].res = "BadRequest"
         /\ posts' = posts]_vars

\* a restore of a live post was refused
C12_Witness ==
  \E r \in Reqs :
    /\ req[r].op = "adminRestorePost" /\ req[r].pc = "done" /\ req[r].res = "BadRequest"
    /\ Live(req[r].pid)

ApprovedComments(p) ==
  {c \in DOMAIN comments :
     comments[c].postId = p /\ comments[c].status = "approved" /\ ~comments[c].isDeleted}

\* no moderation handler is between its save and its counter adjustment
ModerationQuiet == \A r \in Reqs : req[r].pc \notin {"cm_find", "cm_save", "cm_count"}

\* C14: whenever no moderation request is in flight, every post's
\* commentCount is the number of its comments that are approved and not deleted.
C14_CountMatchesApproved ==
  ModerationQuiet =>
    \A p \in DOMAIN posts : posts[p].commentCount = Cardinality(ApprovedComments(p))

\* C15: no post's commentCount is ever negative.
C15_CountNeverNegative == \A p \in DOMAIN posts : posts[p].commentCount >= 0

\* the lifecycle states of section 3
Statuses == {"draft", "pending", "published", "archived"}

\* C16: every stored post's status is one of draft, pending, published,
\* archived: updatePost stores no other value.
C16_StatusInLifecycle == \A p \in DOMAIN posts : posts[p].status \in Statuses

\* C17: a step that stores a post as published, or turns a stored post's
\* status into published, is a step of a request made by an administrator.
C17_OnlyAdminPublishes ==
  [][\A p \in DOMAIN posts' :
       ( /\ posts'[p].status = "published"
         /\ p \notin DOMAIN posts \/ posts[p].status # "published" ) =>
         \E r \in Reqs : req'[r] # req[r] /\ req[r].user.role = "admin"]_vars

\* an author asked updatePost for published and the post went to pending,
\* while an administrator's post is published
C17_Witness ==
  \E r \in Reqs :
    /\ req[r].op = "updatePost" /\ req[r].pc = "done" /\ req[r].res = "ok"
    /\ req[r].user.role = "author" /\ req[r].status = "published"
    /\ Live(req[r].pid) /\ posts[req[r].pid].status = "pending"
    /\ \E q \in DOMAIN posts : posts[q].status = "published"

\* the five operations reserved to the owner and the administrators
Guarded == {"updatePost", "deletePost", "publishPost", "unpublishPost", "restoreRevision"}

\* slot r runs a guarded operation on a stored post for an actor who is
\* neither its author nor an administrator, and takes a step
OutsiderSteps(r) ==
  /\ req[r].op \in Guarded /\ ~Free(r) /\ req'[r] # req[r]
  /\ req[r].pid \in DOMAIN posts
  /\ req[r].user.role # "admin" /\ req[r].user.id # posts[req[r].pid].authorId

C19_CrossPostRevisionNotFound ==
  [][\A r \in Reqs :
       ( /\ req[r].op = "restoreRevision" /\ ~Free(r) /\ req'[r] # req[r]
         /\ RevIndex(req[r].revId) # 0 /\ RevById(req[r].revId).postId # req[r].pid ) =>
         /\ posts' = posts /\ revisions' = revisions
         /\ ~(req'[r].pc = "done" /\ req'[r].res = "ok")
         /\ req[r].pc = "rr_findrev" => (req'[r].pc = "done" /\ req'[r].res = "NotFound")]_vars

\* the owner of two posts named a revision of the first to restore the
\* second, and was told not found
C19_Witness ==
  \E r \in Reqs :
    /\ req[r].op = "restoreRevision" /\ req[r].pc = "done" /\ req[r].res = "NotFound"
    /\ req[r].pid \in DOMAIN posts /\ req[r].user.id = posts[req[r].pid].authorId
    /\ RevIndex(req[r].revId) # 0
    /\ RevById(req[r].revId).postId # req[r].pid
    /\ RevById(req[r].revId).postId \in DOMAIN posts

\* C20: every step keeps every stored revision as it is (same id, postId,
\* editorId, title, content), except the successful last step of an
\* adminForceDeletePost, which may remove revisions of the post it deletes
\* and no others.
C20_RevisionsAppendOnly ==
  [][\A i \in 1..Len(revisions) :
       \/ \E j \in 1..Len(revisions') : revisions'[j] = revisions[i]
       \/ \E r \in Reqs : /\ Returns(r, "adminForceDeletePost", "ok")
                            /\ req[r].pid = revisions[i].postId
                            /\ \A j \in 1..Len(revisions') : revisions'[j].id # revisions[i].id]_vars

\* a post was permanently deleted and the revision its edit had left went with it
C20_Witness ==
  \E r \in Reqs :
    /\ req[r].op = "adminForceDeletePost" /\ req[r].pc = "done" /\ req[r].res = "ok"
    /\ req[r].pid \notin DOMAIN posts
    /\ nextRevId > 1 /\ revisions = << >>

\* C21: when the title of a createPost or an updatePost normalizes to the
\* empty base, the save is not refused for the empty slug: a post stored by
\* that save has a non-empty slug.
C21_EmptyBaseGetsFallback ==
  [][\A r \in Reqs :
       ( /\ req[r].op \in {"createPost", "updatePost"}
         /\ req[r].pc \in {"cr_save", "up_save"} /\ req'[r] # req[r]
         /\ req[r].title # NoTitle /\ slugify(req[r].title) = << >> ) =>
         /\ req'[r].res # "ValidationError"
         /\ req'[r].res = "ok" => posts'[req'[r].pid].slug # << >>]_vars

\* C22: a step that changes a stored post's slug is the successful save of
\* an updatePost whose patch carries a title different from the title the
\* post has in the store.
C22_SlugFollowsTitleChange ==
  [][\A p \in DOMAIN posts \cap DOMAIN posts' :
       posts'[p].slug # posts[p].slug =>
         \E r \in Reqs : /\ Returns(r, "updatePost", "ok") /\ req[r].pid = p
                          /\ req[r].title # NoTitle /\ req[r].title # posts[p].title]_vars

\* C23: a slug that a post gave up when it was retitled is held by no other
\* post afterwards, and the slug of a soft-deleted post is held by no other
\* post.
C23_SlugNeverReused ==
  /\ \A x \in retired : \A q \in DOMAIN posts : posts[q].slug = x[1] => q = x[2]
  /\ \A p \in DOMAIN posts, q \in DOMAIN posts :
       (p # q /\ posts[p].isDeleted) => posts[q].slug # posts[p].slug

\* C24: no read (listPosts, searchPosts, getPostBySlug, getPostById,
\* getAuthorPosts, getDrafts) returns a post whose isDeleted is true at the
\* time of the read.
C24_DeletedNeverRead ==
  [][\A r \in Reqs :
       (req'[r] # req[r] /\ req'[r].op \in ReadOps /\ req'[r].pc = "done") =>
         \A i \in 1..Len(req'[r].out) :
           req'[r].out[i] \in DOMAIN posts /\ ~posts[req'[r].out[i]].isDeleted]_vars

\* a soft-deleted post was published again in bulk, and the list of
\* published posts read after that came back empty
C24_Witness ==
  \E r \in Reqs :
    /\ req[r].op = "listPosts" /\ req[r].pc = "done" /\ req[r].res = "ok"
    /\ req[r].out = << >>
    /\ \E p \in DOMAIN posts : posts[p].isDeleted /\ posts[p].status = "published"

\* C25 as stated: an adminBulkPublish with a non-empty batch does not fail,
\* whatever unknown or malformed ids the batch holds.
C25_BulkNeverFailsOnIds ==
  \A r \in Reqs :
    (req[r].op = "adminBulkPublish" /\ req[r].pc = "done" /\ req[r].ids # {}) =>
      req[r].res = "ok"

\* C25, amended: an adminBulkPublish is refused exactly when its batch holds
\* no well-formed id; otherwise it succeeds, gives the requested status to
\* every stored post whose id is in the batch, leaves every other post as it
\* is, creates none, reports as matched the number of stored posts named by
\* the batch and as modified no more than that.
C25_BulkSkipsBadIds ==
  /\ [](\A r \in Reqs :
          (req[r].op = "adminBulkPublish" /\ req[r].pc = "done") =>
            /\ req[r].res \in {"ok", "BadRequest"}
            /\ req[r].res = "BadRequest" <=> (\A i \in req[r].ids : i = 0))
  /\ [][\A r \in Reqs :
          Returns(r, "adminBulkPublish", "ok") =>
            /\ DOMAIN posts' = DOMAIN posts
            /\ \A p \in DOMAIN posts :
                 IF p \in req[r].ids
                   THEN posts'[p].status = IF req[r].publish THEN "published" ELSE "draft"
                   ELSE posts'[p] = posts[p]
            /\ req'[r].out[1] = Cardinality(req[r].ids \cap DOMAIN posts)
            /\ req'[r].out[2] <= req'[r].out[1]]_vars

\* a batch of a malformed id, an unknown id and a stored post: one matched
C25_Witness ==
  \E r \in Reqs :
    /\ req[r].op = "adminBulkPublish" /\ req[r].pc = "done" /\ req[r].res = "ok"
    /\ 0 \in req[r].ids
    /\ \E i \in req[r].ids : i # 0 /\ i \notin DOMAIN posts
    /\ \E p \in req[r].ids : p \in DOMAIN posts
    /\ req[r].out[1] = 1

\* a post other than self holds the slug
HeldByOther(slug, self) == \E q \in DOMAIN posts : q # self /\ posts[q].slug = slug

\* the base, or the base with the smallest suffix k >= 1, that no other post holds
FirstFree(base, self) ==
  IF ~HeldByOther(base, self) THEN base
  ELSE LET k == CHOOSE k \in 1..(MaxPosts + 1) :
                  /\ ~HeldByOther(base \o <<"-">> \o Digits(k), self)
                  /\ \A j \in 1..(k - 1) : HeldByOther(base \o <<"-">> \o Digits(j), self)
       IN base \o <<"-">> \o Digits(k)

\* C26: with one request at a time, a createPost that succeeds stores the
\* first free candidate of its title's base (the base, else base-k with the
\* smallest k >= 1 no post holds), and an updatePost with a title that
\* succeeds leaves the post with the first free candidate of the new title's
\* base among the slugs of the other posts.
C26_ProbeFindsFirstFree ==
  [][\A r \in Reqs :
       /\ Returns(r, "createPost", "ok") =>
            posts'[req'[r].pid].slug = FirstFree(slugify(req[r].title), 0)
       /\ (Returns(r, "updatePost", "ok") /\ req[r].title # NoTitle) =>
            posts'[req[r].pid].slug = FirstFree(slugify(req[r].title), req[r].pid)]_vars

\* post 2 was retitled to the title of post 1 and got the base with suffix 1
C26_Witness ==
  \E r \in Reqs :
    /\ req[r].op = "updatePost" /\ req[r].pc = "done" /\ req[r].res = "ok"
    /\ req[r].pid \in DOMAIN posts
    /\ \E x \in retired : x[2] = req[r].pid
    /\ posts[req[r].pid].slug = slugify(posts[req[r].pid].title) \o <<"-", "1">>
    /\ \E q \in DOMAIN posts : posts[q].slug = slugify(posts[req[r].pid].title)

\* C27: in every reachable state a post whose isDeleted is true has status
\* archived.
C27_DeletedIsArchived ==
  \A p \in DOMAIN posts : posts[p].isDeleted => posts[p].status = "archived"

\* C28: in every reachable state a post whose status is published has a
\* publishedAt that is not null.
C28_PublishedHasDate ==
  \A p \in DOMAIN posts : posts[p].status = "published" => posts[p].publishedAt # 0

\* a draft that a bulk publication moved to published, with its date
C28_Witness ==
  \E r \in Reqs :
    /\ req[r].op = "adminBulkPublish" /\ req[r].pc = "done" /\ req[r].res = "ok"
    /\ req[r].publish /\ req[r].out = <<1, 1>>
    /\ \E p \in req[r].ids \cap DOMAIN posts :
         posts[p].status = "published" /\ posts[p].publishedAt # 0

\* the first storage read of the four author-tier mutations
AuthorTierFinds == {"up_find", "pp_find", "un_find", "rr_find"}

\* C29: an author-tier mutation (updatePost, publishPost, unpublishPost,
\* restoreRevision) that looks up a soft-deleted post is answered NotFound
\* there, and no step of such a request on a soft-deleted post changes the
\* stored post or the revision list.
C29_DeletedRefusesAuthorTier ==
  [][\A r \in Reqs :
       (/\ req[r].op \in {"updatePost", "publishPost", "unpublishPost", "restoreRevision"}
        /\ ~Free(r)
        /\ req[r].pid \in DOMAIN posts
        /\ posts[req[r].pid].isDeleted
        /\ req'[r] # req[r]) =>
         /\ req[r].pc \in AuthorTierFinds =>
              (req'[r].pc = "done" /\ req'[r].res = "NotFound")
         /\ posts' = posts
         /\ revisions' = revisions]_vars

\* C30: an updatePost whose final save fails on validation or on a duplicate
\* slug has left no revision behind: the snapshot it built is not in the store.
C30_UpdateAllOrNothing ==
  \A r \in Reqs :
    (req[r].op = "updatePost" /\ req[r].pc = "done"
     /\ req[r].res \in {"ValidationError", "DuplicateKey"}) =>
      (req[r].rev = 0 \/ RevIndex(req[r].rev) = 0)

====
